---- MODULE Spec2Model ----
(***************************************************************************)
(* The analysis sidecar's /analyze stream: sidecar.py's event_generator    *)
(* driving analyzers/pipeline.py's run_pipeline, an async generator.       *)
(* A step of the model runs the generator from one suspension point (a     *)
(* yield, or the await of asyncio.to_thread) to the next one.              *)
(***************************************************************************)
EXTENDS Integers, Sequences, FiniteSets, TLC

\* Largest number of truthy keys outside the ten stage identifiers that a
\* request's feature map carries (AnalyzeRequest.features is a plain dict).
MaxUnknownKeys == 1


Stages ==
    {"stems", "beats", "structure", "mood", "harmony", "low_level", "pitch",
     "lyrics", "drums", "vocal_presence"}

\* Order with the lyrics block moved in front of the stems block.
Order_LyricsFirst ==
    <<"lyrics", "stems", "beats", "structure", "mood", "harmony", "low_level",
      "pitch", "drums", "vocal_presence">>

\* Order as the module docstring's dependency graph lists the stages, with
\* lyrics as the fourth block.
Order_Docstring ==
    <<"stems", "beats", "structure", "lyrics", "mood", "harmony", "low_level",
      "pitch", "drums", "vocal_presence">>

\* The order of the stage blocks in run_pipeline's body.
Order ==
    <<"stems", "beats", "structure", "mood", "harmony", "low_level", "pitch",
      "lyrics", "drums", "vocal_presence">>

Index(s) == CHOOSE i \in 1..Len(Order) : Order[i] = s

Range(q) == {q[i] : i \in 1..Len(q)}

\* Python's None; a value v that is not None is held as <<v>>.
None == << >>

audio_str == "audio.wav"

\* analyze_stems returns a path per stem, "" for a stem file that is missing
\* (bass and other are never read by run_pipeline and are left out).
StemsPayloads ==
    {[vocals |-> v, drums |-> d] : v \in {"", "vocals.wav"}, d \in {"", "drums.wav"}}

\* What a stage implementation can return.  json tells whether json.dumps
\* accepts the payload: every analyzer converts its numbers with float(),
\* int() or round(), except analyze_pitch, which passes note.pitch through
\* as the library hands it over.
Returns(s) ==
    IF s = "stems" THEN StemsPayloads
    ELSE IF s = "pitch" THEN {[json |-> TRUE], [json |-> FALSE]}
    ELSE {[json |-> TRUE]}

\* stems_data and stems_data.get(k)
HasStem(sd, k) == sd # None /\ sd[1][k] # ""

\* Executes with the drums block testing the vocals path, as the
\* vocal_presence block does.
Executes_DrumsChecksVocals(feat, sd, s) ==
    /\ feat[s]
    /\ s \in {"drums", "vocal_presence"} => HasStem(sd, "vocals")

\* The condition of a stage's if-block: the stage implementation is invoked.
Executes(feat, sd, s) ==
    /\ feat[s]
    /\ s = "drums" => HasStem(sd, "drums")
    /\ s = "vocal_presence" => HasStem(sd, "vocals")

\* Skips with the elif branch of vocal_presence left out.
Skips_OnlyDrums(feat, sd, s) ==
    /\ s = "drums"
    /\ feat[s]
    /\ ~Executes(feat, sd, s)

\* The elif branches of drums and vocal_presence: enabled, not executed.
Skips(feat, sd, s) ==
    /\ s \in {"drums", "vocal_presence"}
    /\ feat[s]
    /\ ~Executes(feat, sd, s)

\* completed += 1 in those elif branches.
SkipIncrement == 1

\* completed += 1 after a stage's try/except.
StageIncrement == 1

\* Input with the lyrics block always reading the original audio.
Input_LyricsOnAudio(s, sd) ==
    CASE s = "drums" -> sd[1].drums
      [] s = "vocal_presence" -> sd[1].vocals
      [] OTHER -> audio_str

\* The path a stage implementation is called with.
Input(s, sd) ==
    CASE s = "lyrics" -> IF HasStem(sd, "vocals") THEN sd[1].vocals ELSE audio_str
      [] s = "drums" -> sd[1].drums
      [] s = "vocal_presence" -> sd[1].vocals
      [] OTHER -> audio_str

\* The phase label of each stage's progress event.
Phase ==
    [stems |-> "Source separation (Demucs)...",
     beats |-> "Beat detection (madmom)...",
     structure |-> "Structure analysis (allin1)...",
     mood |-> "Mood analysis...",
     harmony |-> "Harmony analysis...",
     low_level |-> "Feature extraction...",
     pitch |-> "Pitch detection (Basic Pitch)...",
     lyrics |-> "Lyrics transcription (Whisper)...",
     drums |-> "Drum onset detection...",
     vocal_presence |-> "Vocal presence detection..."]

\* The detail string of each stage's progress event; lyrics has a second
\* one for its run on the original audio.
StageDetail ==
    [stems |-> "Separating audio into stems",
     beats |-> "Detecting beats and tempo",
     structure |-> "Detecting song sections",
     mood |-> "Classifying mood and energy",
     harmony |-> "Detecting key and chords",
     low_level |-> "Extracting audio features",
     pitch |-> "Detecting notes",
     lyrics |-> "Transcribing vocals",
     drums |-> "Detecting drum hits",
     vocal_presence |-> "Detecting vocal regions"]

Detail(s, sd) ==
    IF s = "lyrics" /\ ~HasStem(sd, "vocals") THEN "Transcribing audio" ELSE StageDetail[s]

Max(a, b) == IF a >= b THEN a ELSE b

\* round(x, 3) of the fraction num/den, in thousandths (no fraction met here
\* lies halfway between two thousandths).
Round3(num, den) == (2000 * num + den) \div (2 * den)

\* sum(1 for v in features.values() if v)
CountTruthy(feat, unknown) == Cardinality({s \in Stages : feat[s]}) + unknown

\* Pct computed from the stages still to run.
Pct_Remaining(c, total) == Round3(total - c, Max(total, 1))

\* Pct computed after the stage's increment of completed.
Pct_PostIncrement(c, total) == Round3(c + 1, Max(total, 1))

\* pct = completed / max(total_features, 1)
Pct(c, total) == Round3(c, Max(total, 1))

progress_event(phase, detail, c, total) ==
    [event |-> "progress",
     data |-> [phase |-> phase, progress |-> Pct(c, total), detail |-> detail]]

\* The final progress event built by progress_event, like the others.
CompleteEvent_Computed(c, total) == progress_event("Complete", "Analysis finished", c, total)

\* The final progress event, a literal.
CompleteEvent(c, total) ==
    [event |-> "progress",
     data |-> [phase |-> "Complete", progress |-> 1000, detail |-> "Analysis finished"]]

\* The event yielded where the generator suspends next.
NextEvent(stop, sd, c, total) ==
    IF stop = "Complete" THEN CompleteEvent(c, total)
    ELSE progress_event(Phase[stop], Detail(stop, sd), c, total)

\* json.dumps(result) raises TypeError on a payload it cannot encode.
Serializable(res) == \A s \in Stages : res[s] # None /\ "json" \in DOMAIN res[s][1] => res[s][1].json

ResultEvent(res) == [event |-> "result", data |-> res]

\* An except branch that logs the exception and yields nothing.
ErrorEvents_Swallowed(msg) == << >>

\* event_generator's except branch: what it yields for an exception of
\* run_pipeline.
ErrorEvents(msg) == <<[event |-> "error", data |-> [error |-> msg]]>>

\* An except branch that stores a failure marker for the stage.
ExceptHandler_RecordsFailure(res, s) == [res EXCEPT ![s] = <<[error |-> "failed"]>>]

\* A stage's except branch: the error is logged, result is left as it was.
ExceptHandler(res, s) == res

\* A store that rebinds result to a fresh map holding the one payload.
StoreResult_Rebinds(res, s, p) == [x \in Stages |-> IF x = s THEN <<p>> ELSE None]

\* result[s] = <the returned payload>
StoreResult(res, s, p) == [res EXCEPT ![s] = <<p>>]

\* stems_data is assigned by the stems block only.
StoreStems(sd, s, p) == IF s = "stems" THEN <<p>> ELSE sd

\* The blocks passed from block i up to the next yield: the stages skipped
\* on the way (elif branches) and where the generator suspends next.
RECURSIVE Scan(_, _, _)
Scan(feat, sd, i) ==
    IF i > Len(Order) THEN [skipped |-> << >>, stop |-> "Complete"]
    ELSE IF Executes(feat, sd, Order[i]) THEN [skipped |-> << >>, stop |-> Order[i]]
    ELSE LET rest == Scan(feat, sd, i + 1)
         IN  IF Skips(feat, sd, Order[i])
             THEN [skipped |-> <<Order[i]>> \o rest.skipped, stop |-> rest.stop]
             ELSE rest

VARIABLES
    features,        \* run -> [Stages -> BOOLEAN]: request.features, known keys
    unknown_keys,    \* run -> number of truthy keys of features outside Stages
    pc,              \* run -> where the stream's generator is suspended
    at,              \* run -> the stage whose block the generator is in
    total_features,  \* run -> total_features
    completed,       \* run -> completed
    stems_data,      \* run -> stems_data
    result,          \* run -> result, without its "features" entry
    events,          \* run -> the events handed to EventSourceResponse so far
    log,             \* run -> history: calls, returns, raises and skips
    shutdown_event,  \* _shutdown_event.is_set()
    exit_timer       \* the call_later(0.5, _force_exit) of /shutdown

vars ==
    <<features, unknown_keys, pc, at, total_features, completed, stems_data,
      result, events, log, shutdown_event, exit_timer>>

NoResult == [s \in Stages |-> None]

\* The /analyze requests being served.
Runs == DOMAIN pc

LogEntry(op, s, arg) == [op |-> op, stage |-> s, arg |-> arg]

SkipEntries(q) == [i \in 1..Len(q) |-> LogEntry("skip", q[i], "")]

\* Resume with completed held in one place for all streams.
Resume_SharedCompleted(r, from, c0, total, sd, lg) ==
    LET sc == Scan(features[r], sd, from)
        c1 == c0 + Len(sc.skipped) * SkipIncrement
    IN  /\ completed' = [q \in Runs |-> c1]
        /\ log' = [log EXCEPT ![r] = lg \o SkipEntries(sc.skipped)]
        /\ events' = [events EXCEPT ![r] = Append(@, NextEvent(sc.stop, sd, c1, total))]
        /\ pc' = [pc EXCEPT ![r] = IF sc.stop = "Complete" THEN "complete" ELSE "yielded"]
        /\ at' = [at EXCEPT ![r] = IF sc.stop = "Complete" THEN "none" ELSE sc.stop]

\* The generator runs on from block `from` to its next yield: the elif
\* branches on the way count their stage, then the next stage's progress
\* event, or the final one, is yielded.
Resume(r, from, c0, total, sd, lg) ==
    LET sc == Scan(features[r], sd, from)
        c1 == c0 + Len(sc.skipped) * SkipIncrement
    IN  /\ completed' = [completed EXCEPT ![r] = c1]
        /\ log' = [log EXCEPT ![r] = lg \o SkipEntries(sc.skipped)]
        /\ events' = [events EXCEPT ![r] = Append(@, NextEvent(sc.stop, sd, c1, total))]
        /\ pc' = [pc EXCEPT ![r] = IF sc.stop = "Complete" THEN "complete" ELSE "yielded"]
        /\ at' = [at EXCEPT ![r] = IF sc.stop = "Complete" THEN "none" ELSE sc.stop]

\* The process is serving its streams: it has not sent itself SIGTERM.  A
\* stream's step leaves the shutdown state as it is.
Serving ==
    /\ exit_timer # "fired"
    /\ UNCHANGED <<shutdown_event, exit_timer>>

\* EventSourceResponse takes the first event: run_pipeline sets up result,
\* total_features and completed, and runs to its first yield.
Start(r) ==
    /\ pc[r] = "request"
    /\ Serving
    /\ LET total == CountTruthy(features[r], unknown_keys[r])
       IN  /\ total_features' = [total_features EXCEPT ![r] = total]
           /\ result' = [result EXCEPT ![r] = NoResult]
           /\ stems_data' = [stems_data EXCEPT ![r] = None]
           /\ Resume(r, 1, 0, total, None, << >>)
    /\ UNCHANGED <<features, unknown_keys>>

\* The next event is asked for while a stage's progress event is the last
\* one yielded: the stage implementation is handed to asyncio.to_thread.
CallStage(r) ==
    /\ pc[r] = "yielded"
    /\ Serving
    /\ pc' = [pc EXCEPT ![r] = "running"]
    /\ log' = [log EXCEPT ![r] = Append(@, LogEntry("call", at[r], Input(at[r], stems_data[r])))]
    /\ UNCHANGED <<features, unknown_keys, at, total_features, completed, stems_data,
                   result, events>>

\* The stage implementation returns: its payload is stored, completed is
\* incremented, and the generator runs to its next yield.
StageReturns(r) ==
    /\ pc[r] = "running"
    /\ Serving
    /\ \E p \in Returns(at[r]) :
         LET s == at[r]
             sd == StoreStems(stems_data[r], s, p)
         IN  /\ result' = [result EXCEPT ![r] = StoreResult(@, s, p)]
             /\ stems_data' = [stems_data EXCEPT ![r] = sd]
             /\ Resume(r, Index(s) + 1, completed[r] + StageIncrement, total_features[r], sd,
                       Append(log[r], LogEntry("return", s, "")))
    /\ UNCHANGED <<features, unknown_keys, total_features>>

\* The stage implementation raises: the except branch logs the error,
\* completed is incremented, and the generator runs to its next yield.
StageRaises(r) ==
    /\ pc[r] = "running"
    /\ Serving
    /\ LET s == at[r]
       IN  /\ result' = [result EXCEPT ![r] = ExceptHandler(@, s)]
           /\ Resume(r, Index(s) + 1, completed[r] + StageIncrement, total_features[r],
                     stems_data[r], Append(log[r], LogEntry("raise", s, "")))
    /\ UNCHANGED <<features, unknown_keys, total_features, stems_data>>

\* After the final progress event: json.dumps(result) succeeds and the
\* result event is yielded, the last statement of run_pipeline.
EmitResult(r) ==
    /\ pc[r] = "complete"
    /\ Serving
    /\ Serializable(result[r])
    /\ events' = [events EXCEPT ![r] = Append(@, ResultEvent(result[r]))]
    /\ pc' = [pc EXCEPT ![r] = "result"]
    /\ UNCHANGED <<features, unknown_keys, at, total_features, completed, stems_data,
                   result, log>>

\* After the final progress event: json.dumps(result) raises, run_pipeline
\* ends with the exception and event_generator's except branch answers it
\* with its last statement.
EmitError(r) ==
    /\ pc[r] = "complete"
    /\ Serving
    /\ ~Serializable(result[r])
    /\ events' = [events EXCEPT ![r] = @ \o ErrorEvents("TypeError")]
    /\ pc' = [pc EXCEPT ![r] = "error"]
    /\ UNCHANGED <<features, unknown_keys, at, total_features, completed, stems_data,
                   result, log>>

\* The state as analyze() returns an EventSourceResponse for each request in
\* `active`; run_pipeline's locals do not exist yet and hold placeholders.
InitFrom(active, selections, unknown) ==
    /\ features \in [active -> selections]
    /\ unknown_keys \in [active -> unknown]
    /\ pc = [r \in active |-> "request"]
    /\ at = [r \in active |-> "none"]
    /\ total_features = [r \in active |-> 0]
    /\ completed = [r \in active |-> 0]
    /\ stems_data = [r \in active |-> None]
    /\ result = [r \in active |-> NoResult]
    /\ events = [r \in active |-> << >>]
    /\ log = [r \in active |-> << >>]
    /\ shutdown_event = FALSE
    /\ exit_timer = "none"

InitRuns(active) == InitFrom(active, [Stages -> BOOLEAN], 0..MaxUnknownKeys)

Init == InitRuns({1})

Next ==
    \E r \in Runs :
        \/ Start(r)
        \/ CallStage(r)
        \/ StageReturns(r)
        \/ StageRaises(r)
        \/ EmitResult(r)
        \/ EmitError(r)

Spec == Init /\ [][Next]_vars

\* POST /shutdown: the event is set and _force_exit is scheduled; the
\* streams being served are left as they are.
shutdown ==
    /\ exit_timer # "fired"
    /\ shutdown_event' = TRUE
    /\ exit_timer' = "scheduled"
    /\ UNCHANGED <<features, unknown_keys, pc, at, total_features, completed,
                   stems_data, result, events, log>>

\* The timer fires: the process sends itself SIGTERM.
force_exit ==
    /\ exit_timer = "scheduled"
    /\ exit_timer' = "fired"
    /\ UNCHANGED <<features, unknown_keys, pc, at, total_features, completed,
                   stems_data, result, events, log, shutdown_event>>

\* The streams of requests over the ten stage identifiers, with a client
\* that may post /shutdown at any moment.  The streams are followed up to
\* the signal; what the server does on it is not part of the sources.
InitShutdown == InitFrom({1}, [Stages -> BOOLEAN], {0})

NextShutdown ==
    \/ Next
    \/ shutdown
    \/ force_exit

SpecShutdown == InitShutdown /\ [][NextShutdown]_vars

\* The feature maps of the two-stream specification: any selection among
\* stems, pitch, lyrics and drums.
PairStages == {"stems", "pitch", "lyrics", "drums"}

PairSelections == {[s \in Stages |-> s \in S] : S \in SUBSET PairStages}

\* Two /analyze requests served by the one event loop: their generators
\* are resumed in any interleaving, each from one suspension point to its
\* next.
InitPair == InitFrom({1, 2}, PairSelections, {0})

SpecPair == InitPair /\ [][Next]_vars

(***************************************************************************)
(* Vocabulary of the properties.                                           *)
(***************************************************************************)

\* run_pipeline has started: its locals exist.
Started(r) == pc[r] # "request"

\* The final progress event has been yielded.
Finalized(r) == pc[r] \in {"complete", "result", "error"}

\* The generator has run its last statement: the stream is over.
Ended(r) == pc[r] \in {"result", "error"}

EnabledStages(r) == {s \in Stages : features[r][s]}

IsProgress(e) == e.event = "progress"

IsTerminal(e) == e.event \in {"result", "error"}

ProgressEvents(r) == SelectSeq(events[r], IsProgress)

TerminalEvents(r) == SelectSeq(events[r], IsTerminal)

Last(q) == q[Len(q)]

Logged(r, op, s) == \E i \in 1..Len(log[r]) : log[r][i].op = op /\ log[r][i].stage = s

\* The log entries with one of the operations ops, in order.
Entries(r, ops) == LET Picked(e) == e.op \in ops IN SelectSeq(log[r], Picked)

\* The stages of those entries, in order.
StagesLogged(r, ops) == LET q == Entries(r, ops) IN [i \in 1..Len(q) |-> q[i].stage]

\* The stem a consumer stage reads was not delivered by the stems block.
MissingStem(r, s) ==
    \/ s = "drums" /\ ~HasStem(stems_data[r], "drums")
    \/ s = "vocal_presence" /\ ~HasStem(stems_data[r], "vocals")

(***************************************************************************)
(* C1                                                                      *)
(***************************************************************************)

\* C1 as stated: for a feature map over the ten stage identifiers, once the
\* final progress event is out, the number of progress events is the number
\* of enabled stages plus one.
C1_ProgressCountIsEnabledPlusOne ==
    \A r \in Runs :
        Finalized(r) /\ unknown_keys[r] = 0 =>
            Len(ProgressEvents(r)) = Cardinality(EnabledStages(r)) + 1

\* C1 amended: for a feature map over the ten stage identifiers, once the
\* final progress event is out, the number of progress events is one plus
\* the number of enabled stages that were executed, that is, all enabled
\* stages but drums and vocal_presence when their stem is missing.
C1_ProgressCountIsExecutedPlusOne ==
    \A r \in Runs :
        Finalized(r) /\ unknown_keys[r] = 0 =>
            Len(ProgressEvents(r)) =
                Cardinality({s \in EnabledStages(r) : ~MissingStem(r, s)}) + 1

\* A finished run over the ten identifiers that executed stages and skipped
\* drums.
C1_Witness ==
    \E r \in Runs :
        /\ pc[r] = "result"
        /\ unknown_keys[r] = 0
        /\ Logged(r, "skip", "drums")
        /\ Logged(r, "return", "stems")
        /\ Logged(r, "raise", "beats")
        /\ Len(ProgressEvents(r)) = 3

(***************************************************************************)
(* C2                                                                      *)
(***************************************************************************)

C3_ExactlyOneTerminalEvent ==
    \A r \in Runs :
        LET n == Len(TerminalEvents(r))
        IN  /\ n <= 1
            /\ n = 1 => IsTerminal(Last(events[r])) /\ Ended(r)
            /\ Ended(r) => n = 1
            /\ pc[r] = "result" => Last(events[r]).event = "result"
            /\ pc[r] = "error" => Last(events[r]).event = "error"

\* A stream that ended with an error event after its progress events.
C3_Witness ==
    \E r \in Runs :
        /\ pc[r] = "error"
        /\ Last(events[r]).event = "error"
        /\ Len(events[r]) > 2
        /\ Len(TerminalEvents(r)) = 1

(***************************************************************************)
(* C4                                                                      *)
(***************************************************************************)

\* C4 as stated: a feature selection with a truthy key outside the ten
\* stage identifiers aborts the run before any progress event: the stream
\* of a started run is a single error event.
C4_UnknownKeyAbortsRun ==
    \A r \in Runs :
        Started(r) /\ unknown_keys[r] > 0 =>
            Len(events[r]) = 1 /\ events[r][1].event = "error"

(***************************************************************************)
(* C5                                                                      *)
(***************************************************************************)

\* C5 as stated: in every state of a started run completed is at most
\* total_features, and the two are equal exactly when the run is at its end
\* (the final progress event is out).
C5_CompletedReachesTotalAtEnd ==
    \A r \in Runs :
        Started(r) =>
            /\ completed[r] <= total_features[r]
            /\ completed[r] = total_features[r] <=> Finalized(r)

(***************************************************************************)
(* C6                                                                      *)
(***************************************************************************)

\* The fraction of a progress event, in thousandths.
Fraction(e) == e.data.progress

\* C6: the fractions of a run's progress events, the final one included,
\* never decrease along the stream and lie between 0 and 1.
C6_FractionsMonotoneAndBounded ==
    \A r \in Runs :
        LET P == ProgressEvents(r)
        IN  \A i \in 1..Len(P) :
                /\ 0 <= Fraction(P[i]) /\ Fraction(P[i]) <= 1000
                /\ i < Len(P) => Fraction(P[i]) <= Fraction(P[i + 1])

\* A finished run whose fractions rise in steps, one of them over a skipped
\* stage, with a stage that raised.
C6_Witness ==
    \E r \in Runs :
        /\ Finalized(r)
        /\ Len(ProgressEvents(r)) = 4
        /\ Logged(r, "skip", "drums")
        /\ Logged(r, "raise", "stems")
        /\ Fraction(ProgressEvents(r)[1]) = 0
        /\ Fraction(ProgressEvents(r)[2]) = 250
        /\ Fraction(ProgressEvents(r)[3]) = 500
        /\ Fraction(ProgressEvents(r)[4]) = 1000

(***************************************************************************)
(* C7                                                                      *)
(***************************************************************************)

IsComplete(e) ==
    /\ IsProgress(e)
    /\ e.data.phase = "Complete"
    /\ e.data.progress = 1000

\* Progress events that carry the label "Complete" or the fraction 1.0.
CompleteLike(e) == IsProgress(e) /\ (e.data.phase = "Complete" \/ e.data.progress = 1000)

IsResult(e) == e.event = "result"

\* C7: when run_pipeline does not raise, the stream ends with the progress
\* event (1.0, "Complete") and then the result event; there is one such
\* progress event and one result event; with no stage enabled these two are
\* the whole stream and every outcome of the result is null.
C7_CompleteThenResult ==
    \A r \in Runs :
        /\ pc[r] = "complete" => IsComplete(Last(events[r]))
        /\ pc[r] = "result" =>
             LET n == Len(events[r])
             IN  /\ n >= 2
                 /\ IsResult(events[r][n])
                 /\ IsComplete(events[r][n - 1])
                 /\ Len(SelectSeq(events[r], CompleteLike)) = 1
                 /\ Len(SelectSeq(events[r], IsResult)) = 1
                 /\ EnabledStages(r) = {} =>
                        n = 2 /\ \A s \in Stages : events[r][n].data[s] = None

\* The result event of a run in which every stage failed or was skipped.
C7_Witness ==
    \E r \in Runs :
        /\ pc[r] = "result"
        /\ Logged(r, "raise", "stems")
        /\ Logged(r, "raise", "lyrics")
        /\ Logged(r, "skip", "drums")
        /\ \A s \in Stages : result[r][s] = None
        /\ Len(events[r]) = 4

(***************************************************************************)
(* C8                                                                      *)
(***************************************************************************)

Consumers == {"lyrics", "drums", "vocal_presence"}

\* C8: in a run with stems enabled, whenever a consumer stage is about to
\* execute (its progress event is out) or is executing, stems has been
\* called and has concluded, by a return or by a raise, and is not running.
C8_ConsumerAfterStems ==
    \A r \in Runs :
        pc[r] \in {"yielded", "running"} /\ at[r] \in Consumers /\ features[r]["stems"] =>
            /\ Logged(r, "call", "stems")
            /\ Logged(r, "return", "stems") \/ Logged(r, "raise", "stems")

\* A consumer executing after stems failed.
C8_Witness ==
    \E r \in Runs :
        /\ features[r]["stems"]
        /\ pc[r] = "running"
        /\ at[r] = "lyrics"
        /\ Logged(r, "raise", "stems")

(***************************************************************************)
(* C9                                                                      *)
(***************************************************************************)

\* The order the claim gives.
FixedOrder ==
    <<"stems", "beats", "structure", "mood", "harmony", "low_level", "pitch",
      "lyrics", "drums", "vocal_presence">>

Restrict(q, S) == LET Kept(s) == s \in S IN SelectSeq(q, Kept)

Conclusions(r, s) ==
    LET Of(e) == e.stage = s /\ e.op \in {"return", "raise", "skip"}
    IN  Len(SelectSeq(log[r], Of))

AllConclusions(r) == Len(Entries(r, {"return", "raise", "skip"}))

\* C10: when drums (vocal_presence) is enabled and stems was disabled,
\* failed or returned an empty drums (vocals) path, the stage is never
\* called, its outcome stays null, completed is incremented once for it,
\* and nothing is raised for it: an error event only ever comes from a
\* payload json.dumps cannot encode.
C10_MissingStemSkipsStage ==
    \A r \in Runs :
        /\ Started(r) /\ pc[r] # "running" => completed[r] = AllConclusions(r)
        /\ Finalized(r) =>
             \A s \in {"drums", "vocal_presence"} :
                 features[r][s] /\ MissingStem(r, s) =>
                     /\ ~Logged(r, "call", s)
                     /\ ~Logged(r, "raise", s)
                     /\ result[r][s] = None
                     /\ Conclusions(r, s) = 1
                     /\ Logged(r, "skip", s)
                     /\ pc[r] = "error" => ~Serializable(result[r])

\* A finished run in which stems returned an empty drums path and a vocals
\* path: drums was skipped, vocal_presence was called.
C10_Witness ==
    \E r \in Runs :
        /\ pc[r] = "result"
        /\ features[r]["drums"]
        /\ stems_data[r] = <<[vocals |-> "vocals.wav", drums |-> ""]>>
        /\ Logged(r, "skip", "drums")
        /\ Logged(r, "return", "vocal_presence")
        /\ completed[r] = total_features[r]

(***************************************************************************)
(* C11                                                                     *)
(***************************************************************************)

\* The calls of the lyrics stage implementation, in order.
LyricsCalls(r) ==
    LET Picked(e) == e.op = "call" /\ e.stage = "lyrics"
    IN  SelectSeq(log[r], Picked)

\* The stems stage of the run returned a non-empty vocals path.
VocalsDelivered(r) ==
    /\ Logged(r, "return", "stems")
    /\ stems_data[r] # None
    /\ stems_data[r][1].vocals # ""

\* C11: lyrics is never called twice, and a run with lyrics enabled that has
\* yielded its final progress event has called it exactly once; the call is
\* made with the vocals stem path if and only if stems returned a non-empty
\* vocals path in this run, and with the original audio otherwise (stems
\* disabled, failed, or vocals path empty); a call that returned has stored
\* a success payload; and lyrics is counted once in completed.
C11_LyricsOnceOnVocalsOrAudio ==
    \A r \in Runs :
        LET calls == LyricsCalls(r)
        IN  /\ Len(calls) <= 1
            /\ Len(calls) = 1 =>
                   /\ features[r]["lyrics"]
                   /\ VocalsDelivered(r) <=> calls[1].arg = "vocals.wav"
                   /\ ~VocalsDelivered(r) <=> calls[1].arg = audio_str
                   /\ VocalsDelivered(r) => calls[1].arg = stems_data[r][1].vocals
            /\ Logged(r, "return", "lyrics") =>
                   /\ result[r]["lyrics"] # None
                   /\ result[r]["lyrics"][1] \in Returns("lyrics")
            /\ Finalized(r) /\ features[r]["lyrics"] =>
                   /\ Len(calls) = 1
                   /\ Conclusions(r, "lyrics") = 1
                   /\ completed[r] = AllConclusions(r)

\* A finished run in which stems returned an empty vocals path and lyrics
\* fell back to the original audio and returned.
C11_Witness ==
    \E r \in Runs :
        /\ pc[r] = "result"
        /\ Logged(r, "return", "stems")
        /\ stems_data[r] = <<[vocals |-> "", drums |-> "drums.wav"]>>
        /\ LyricsCalls(r) = <<LogEntry("call", "lyrics", audio_str)>>
        /\ Logged(r, "return", "lyrics")
        /\ result[r]["lyrics"] # None

(***************************************************************************)
(* C12                                                                     *)
(***************************************************************************)

Raised(r) == \E s \in Stages : Logged(r, "raise", s)

IsError(e) == e.event = "error"

\* Every enabled stage was taken up in the order of the blocks and every
\* call was concluded.
AllProcessed(r) ==
    /\ StagesLogged(r, {"call", "skip"}) = Restrict(Order, EnabledStages(r))
    /\ StagesLogged(r, {"call"}) = StagesLogged(r, {"return", "raise"})

\* C12 as stated: in a run in which a stage raised, no error event is
\* emitted; once the final progress event is out every enabled stage has
\* been processed; and the stream ends with the result event.
C12_RaiseNeverAbortsRun ==
    \A r \in Runs :
        Raised(r) =>
            /\ Len(SelectSeq(events[r], IsError)) = 0
            /\ Finalized(r) => AllProcessed(r) /\ IsComplete(events[r][Len(ProgressEvents(r))])
            /\ Ended(r) => pc[r] = "result" /\ IsResult(Last(events[r]))

\* What holds of C12 in the code: a raise alone never aborts.  In a run in
\* which a stage raised, every enabled stage is still processed and the
\* final progress event is yielded; an error event then comes only from a
\* stored payload that json.dumps cannot encode, and the stream ends with
\* the result event otherwise.
C12_RaiseAloneNeverAborts ==
    \A r \in Runs :
        Raised(r) =>
            /\ Finalized(r) => AllProcessed(r) /\ IsComplete(events[r][Len(ProgressEvents(r))])
            /\ Len(SelectSeq(events[r], IsError)) > 0 => ~Serializable(result[r])
            /\ Ended(r) /\ Serializable(result[r]) =>
                   pc[r] = "result" /\ IsResult(Last(events[r]))

(***************************************************************************)
(* C13                                                                     *)
(***************************************************************************)

\* C13 as stated: once a stop has been requested (POST /shutdown has set
\* the shutdown event), no stream hands a further stage implementation to
\* asyncio.to_thread.
C13_NoStageStartsAfterStopRequest ==
    [][shutdown_event => \A r \in Runs : pc'[r] = "running" => pc[r] = "running"]_vars

(***************************************************************************)
(* C14                                                                     *)
(***************************************************************************)

IsStageProgress(e) == IsProgress(e) /\ e.data.phase # "Complete"

\* The progress events of the stages, without the final one.
StageProgressEvents(r) == SelectSeq(events[r], IsStageProgress)

NoRepeat(q) == Cardinality(Range(q)) = Len(q)

\* No stage has been called twice, and no stage's entry of result has been
\* written twice (an entry is written when, and only when, the stage returns).
OnceSoFar(r) ==
    LET called == StagesLogged(r, {"call"})
        returned == StagesLogged(r, {"return"})
    IN  /\ NoRepeat(called)
        /\ NoRepeat(returned)
        /\ \A s \in Stages : result[r][s] # None <=> s \in Range(returned)

\* A step leaves every recorded outcome as it is.
KeepsOutcomes(r) == \A s \in Stages : result[r][s] # None => result'[r][s] = result[r][s]

\* C15: within a run no stage implementation is called more than once and
\* no entry of result is written more than once; and no step of the run
\* overwrites or clears an entry of result that holds an outcome.
C15_CalledAndWrittenAtMostOnce ==
    /\ [](\A r \in Runs : OnceSoFar(r))
    /\ [][\A r \in Runs : KeepsOutcomes(r)]_vars

\* A run that ended with three outcomes recorded, each stage called once.
C15_Witness ==
    \E r \in Runs :
        /\ pc[r] = "result"
        /\ result[r]["stems"] # None
        /\ result[r]["beats"] # None
        /\ result[r]["vocal_presence"] # None
        /\ StagesLogged(r, {"call"}) = <<"stems", "beats", "vocal_presence">>

(***************************************************************************)
(* C16                                                                     *)
(***************************************************************************)

\* What run_pipeline and event_generator hold for one stream.
RunState(r) ==
    <<features[r], unknown_keys[r], pc[r], at[r], total_features[r], completed[r],
      stems_data[r], result[r], events[r], log[r]>>

\* A step that changes something of stream r changes nothing of another one.
OwnStepOnly(r) ==
    RunState(r)' # RunState(r) => \A q \in Runs \ {r} : RunState(q)' = RunState(q)

\* Two streams at the same point with the same request and the same stage
\* outcomes so far hold the same counts and have yielded the same events.
SameAsAlone(r, q) ==
    /\ features[r] = features[q]
    /\ unknown_keys[r] = unknown_keys[q]
    /\ pc[r] = pc[q]
    /\ log[r] = log[q]
    /\ stems_data[r] = stems_data[q]
    /\ result[r] = result[q]
    => /\ events[r] = events[q]
       /\ completed[r] = completed[q]
       /\ total_features[r] = total_features[q]
       /\ at[r] = at[q]

\* C16: with two streams interleaved at their suspension points, every
\* step changes the state (completed, total_features, stems_data, result,
\* events) of one stream only, the one that took it; each stream's completed
\* is the number of its own conclusions; and a stream's events and counts
\* are determined by its own request and stage outcomes, whatever the other
\* stream did in between.
C16_RunsDoNotShareState ==
    /\ [][\A r \in Runs : OwnStepOnly(r)]_vars
    /\ [](\A r \in Runs :
             /\ Started(r) /\ pc[r] # "running" => completed[r] = AllConclusions(r)
             /\ \A q \in Runs : SameAsAlone(r, q))

\* Two streams of the same request under way at once, one ahead of the
\* other.
C16_Witness ==
    \E r \in Runs : \E q \in Runs \ {r} :
        /\ features[r] = features[q]
        /\ pc[r] = "running" /\ at[r] = "lyrics" /\ completed[r] = 1
        /\ pc[q] = "running" /\ at[q] = "stems" /\ completed[q] = 0

====
